---- MODULE Spec2Model ----
(***************************************************************************)
(* Model of server/behavior-analysis.py: one command-line invocation of    *)
(* main() per request.  Each invocation reads sys.argv, decodes the base64 *)
(* image, loads two Haar cascades, detects faces, detects eyes inside the  *)
(* first face and prints exactly one JSON line.                            *)
(*                                                                         *)
(* The OpenCV / base64 library calls are modelled by what they do on a     *)
(* small table of payloads and images: an image is a pixel grid of a given *)
(* size together with the face-like and eye-like patterns it contains      *)
(* (boxes <<x, y, w, h>> in grid coordinates, in detector order).          *)
(***************************************************************************)
EXTENDS Integers, Sequences, FiniteSets, TLC

(* Number of invocations of main() in one behaviour. *)
MaxRequests == 3

(* minSize=(30, 30) of the face detector, minSize=(20, 20) of the eye detector. *)
FaceMinSize == 30
EyeMinSize == 20

VARIABLES
    env,          \* the installation: how the cascade files load, imdecode's version
    nreq,         \* invocations of main() started so far
    argv,         \* sys.argv of the current invocation (argv[1] is the script name)
    pc,           \* position of the current invocation
    image_data,   \* main: image_data
    image_bytes,  \* analyze_behavior: image_bytes / np_array
    frame,        \* analyze_behavior: frame ("None" when imdecode yields None)
    face_cascade, \* analyze_behavior: face_cascade
    eye_cascade,  \* analyze_behavior: eye_cascade
    gray,         \* analyze_behavior: gray
    faces,        \* analyze_behavior: faces
    face,         \* analyze_behavior: face
    eyes,         \* analyze_behavior: eyes
    behavior,     \* main: behavior (the value analyze_behavior returned)
    exc,          \* the exception in flight
    stdout,       \* the lines printed by the current invocation
    calls,        \* log: library calls made by the current invocation
    raisedAt,     \* log: the pipeline stage that raised, "" if none
    remembered    \* observer: the input and output of one earlier invocation

vars == <<env, nreq, argv, pc, image_data, image_bytes, frame, face_cascade,
          eye_cascade, gray, faces, face, eyes, behavior, exc, stdout, calls,
          raisedAt, remembered>>

---------------------------------------------------------------------------
(* Payloads, bytes and images.                                             *)

(* Arguments that are base64 of the bytes of an image file. *)
ImagePayloads ==
    {"b64(room.jpg)", "b64(awake.jpg)", "b64(wink.jpg)", "b64(eyes_shut.jpg)",
     "b64(two_first_asleep.jpg)", "b64(two_first_awake.jpg)",
     "b64(small.jpg)", "b64(three_eyes.jpg)"}

(* "aGVsbG8" has incorrect padding; "!!!!" holds no base64 character and     *)
(* decodes to b''; "aGVsbG8=" decodes to b'hello', which is no image.        *)
BadPayloads == {"aGVsbG8", "!!!!", "aGVsbG8="}

(* base64 of an image file with a character outside the alphabet in it. *)
LenientPayloads == {"b64(wink.jpg)!"}

Argvs ==
    {<<"behavior-analysis.py">>, <<"behavior-analysis.py", "">>,
     <<"behavior-analysis.py", "b64(awake.jpg)", "extra">>}
    \cup {<<"behavior-analysis.py", p>> : p \in ImagePayloads \cup BadPayloads \cup LenientPayloads}

NoBox == <<0, 0, 0, 0>>
FaceA == <<20, 10, 60, 80>>
FaceL == <<10, 10, 60, 60>>
FaceR == <<110, 20, 60, 60>>

(* The image files: size of the grid, face-like and eye-like patterns. *)
Images ==
    [ room      |-> [rows |-> 100, cols |-> 200, faces |-> <<>>,
                     eyes |-> << <<50, 40, 20, 20>>, <<90, 40, 20, 20>> >>],
      awake     |-> [rows |-> 100, cols |-> 200, faces |-> <<FaceA>>,
                     eyes |-> << <<25, 30, 20, 20>>, <<55, 30, 20, 20>> >>],
      wink      |-> [rows |-> 100, cols |-> 200, faces |-> <<FaceA>>,
                     eyes |-> << <<25, 30, 20, 20>>, <<70, 30, 20, 20>> >>],
      eyes_shut |-> [rows |-> 100, cols |-> 200, faces |-> <<FaceA>>,
                     eyes |-> <<>>],
      two_first_asleep
                |-> [rows |-> 100, cols |-> 200, faces |-> <<FaceL, FaceR>>,
                     eyes |-> << <<120, 40, 20, 20>>, <<145, 40, 20, 20>>,
                                 <<40, 30, 20, 20>> >>],
      two_first_awake
                |-> [rows |-> 100, cols |-> 200, faces |-> <<FaceL, FaceR>>,
                     eyes |-> << <<15, 30, 20, 20>>, <<45, 30, 20, 20>>,
                                 <<120, 40, 20, 20>> >>],
      small     |-> [rows |-> 100, cols |-> 200,
                     faces |-> << <<150, 10, 25, 25>>, FaceA >>,
                     eyes |-> << <<25, 30, 15, 15>>, <<55, 30, 15, 15>>,
                                 <<40, 60, 20, 20>> >>],
      three_eyes |-> [rows |-> 100, cols |-> 200, faces |-> <<FaceA>>,
                     eyes |-> << <<25, 30, 20, 20>>, <<55, 30, 20, 20>>,
                                 <<40, 60, 20, 20>> >>] ]

(* A grid is a window (rows r0..r1-1, columns c0..c1-1) on an image. *)
NoGrid == [img |-> "None", r0 |-> 0, r1 |-> 0, c0 |-> 0, c1 |-> 0]

NoExc == [cls |-> "", msg |-> ""]

Min(a, b) == IF a < b THEN a ELSE b
Max(a, b) == IF a > b THEN a ELSE b

---------------------------------------------------------------------------
(* Library calls.                                                          *)

(* base64.b64decode(s): characters outside the alphabet are discarded,     *)
(* wrong padding raises binascii.Error.                                    *)
B64Decode(s) ==
    CASE s = "aGVsbG8"  -> [exc |-> [cls |-> "binascii.Error", msg |-> "Incorrect padding"],
                            bytes |-> ""]
      [] s = "!!!!"     -> [exc |-> NoExc, bytes |-> ""]
      [] s = ""         -> [exc |-> NoExc, bytes |-> ""]
      [] s = "aGVsbG8=" -> [exc |-> NoExc, bytes |-> "hello"]
      [] s = "b64(room.jpg)"      -> [exc |-> NoExc, bytes |-> "room.jpg"]
      [] s = "b64(awake.jpg)"     -> [exc |-> NoExc, bytes |-> "awake.jpg"]
      [] s = "b64(wink.jpg)"      -> [exc |-> NoExc, bytes |-> "wink.jpg"]
      [] s = "b64(wink.jpg)!"     -> [exc |-> NoExc, bytes |-> "wink.jpg"]
      [] s = "b64(eyes_shut.jpg)" -> [exc |-> NoExc, bytes |-> "eyes_shut.jpg"]
      [] s = "b64(two_first_asleep.jpg)"
                                  -> [exc |-> NoExc, bytes |-> "two_first_asleep.jpg"]
      [] s = "b64(two_first_awake.jpg)"
                                  -> [exc |-> NoExc, bytes |-> "two_first_awake.jpg"]
      [] s = "b64(small.jpg)"     -> [exc |-> NoExc, bytes |-> "small.jpg"]
      [] s = "b64(three_eyes.jpg)" -> [exc |-> NoExc, bytes |-> "three_eyes.jpg"]

(* cv2.imdecode(np.frombuffer(bytes), IMREAD_COLOR): the image, None for   *)
(* bytes that are no image; an empty buffer raises cv2.error or yields     *)
(* None, depending on the OpenCV version.                                  *)
ImDecode(bytes, emptyRaises) ==
    CASE bytes = "" /\ emptyRaises ->
            [exc |-> [cls |-> "cv2.error",
                      msg |-> "(-215:Assertion failed) !buf.empty() in function 'imdecode_'"],
             frame |-> "None"]
      [] bytes = "" /\ ~emptyRaises -> [exc |-> NoExc, frame |-> "None"]
      [] bytes = "hello"            -> [exc |-> NoExc, frame |-> "None"]
      [] bytes = "room.jpg"         -> [exc |-> NoExc, frame |-> "room"]
      [] bytes = "awake.jpg"        -> [exc |-> NoExc, frame |-> "awake"]
      [] bytes = "wink.jpg"         -> [exc |-> NoExc, frame |-> "wink"]
      [] bytes = "eyes_shut.jpg"    -> [exc |-> NoExc, frame |-> "eyes_shut"]
      [] bytes = "two_first_asleep.jpg" -> [exc |-> NoExc, frame |-> "two_first_asleep"]
      [] bytes = "two_first_awake.jpg"  -> [exc |-> NoExc, frame |-> "two_first_awake"]
      [] bytes = "small.jpg"        -> [exc |-> NoExc, frame |-> "small"]
      [] bytes = "three_eyes.jpg"   -> [exc |-> NoExc, frame |-> "three_eyes"]

(* cv2.CascadeClassifier(path): a loaded cascade, an empty one when the    *)
(* file cannot be opened, or cv2.error when the file cannot be parsed.     *)
CascadeClassifier(kind, load) ==
    IF load = "raise"
    THEN [exc |-> [cls |-> "cv2.error",
                   msg |-> "(-2:Unspecified error) cascade file cannot be parsed"],
          cascade |-> [kind |-> kind, empty |-> TRUE]]
    ELSE [exc |-> NoExc, cascade |-> [kind |-> kind, empty |-> (load = "empty")]]

NoCascade == [kind |-> "", empty |-> TRUE]

(* cv2.cvtColor(frame, COLOR_BGR2GRAY): the grayscale grid of the same size. *)
CvtColor(f) ==
    IF f = "None"
    THEN [exc |-> [cls |-> "cv2.error",
                   msg |-> "(-215:Assertion failed) !_src.empty() in function 'cvtColor'"],
          gray |-> NoGrid]
    ELSE [exc |-> NoExc,
          gray |-> [img |-> f, r0 |-> 0, r1 |-> Images[f].rows,
                    c0 |-> 0, c1 |-> Images[f].cols]]

(* numpy slicing g[ra:rb, ca:cb], indices relative to g and clipped to it. *)
Crop(g, ra, rb, ca, cb) ==
    LET h == g.r1 - g.r0
        w == g.c1 - g.c0
        a == Min(Max(ra, 0), h)
        b == Min(Max(rb, 0), h)
        c == Min(Max(ca, 0), w)
        d == Min(Max(cb, 0), w)
    IN  [img |-> g.img, r0 |-> g.r0 + a, r1 |-> g.r0 + Max(a, b),
         c0 |-> g.c0 + c, c1 |-> g.c0 + Max(c, d)]

(* The patterns of the cascade's kind in the image the grid is a window on. *)
Patterns(cascade, g) ==
    IF g.img = "None" THEN <<>>
    ELSE IF cascade.kind = "face" THEN Images[g.img].faces ELSE Images[g.img].eyes

(* cascade.detectMultiScale(g, scaleFactor=1.1, minNeighbors=5, minSize):  *)
(* the patterns of at least minSize lying wholly inside the grid, in       *)
(* detector order, as boxes relative to the grid's own origin.             *)
DetectMultiScale(cascade, g, minSize) ==
    LET Inside(b) == /\ b[3] >= minSize /\ b[4] >= minSize
                     /\ b[1] >= g.c0 /\ b[1] + b[3] <= g.c1
                     /\ b[2] >= g.r0 /\ b[2] + b[4] <= g.r1
        found == SelectSeq(Patterns(cascade, g), Inside)
    IN  [i \in 1..Len(found) |->
            <<found[i][1] - g.c0, found[i][2] - g.r0, found[i][3], found[i][4]>>]

DetectorEmptyExc ==
    [cls |-> "cv2.error",
     msg |-> "(-215:Assertion failed) !empty() in function 'detectMultiScale'"]

(* json.dumps of a dict of strings, given as a sequence of <<key, value>>. *)
RECURSIVE JsonItems(_)
JsonItems(d) ==
    IF Len(d) = 0 THEN ""
    ELSE "\"" \o d[1][1] \o "\": \"" \o d[1][2] \o "\""
         \o (IF Len(d) > 1 THEN ", " ELSE "") \o JsonItems(Tail(d))

JsonDumps(d) == "{" \o JsonItems(d) \o "}"

(* print(json.dumps(d)): the printed line, with the dict it renders. *)
Line(d) == [obj |-> d, text |-> JsonDumps(d)]

(* except Exception: the classes raised here all derive from Exception. *)
ExceptionClasses == {"binascii.Error", "ValueError", "cv2.error"}

CaughtValueErrorOnly(cls) == cls \in {"binascii.Error", "ValueError"}

Caught(cls) == cls \in ExceptionClasses

---------------------------------------------------------------------------
(* The program.                                                            *)

NoCalls == [b64 |-> 0, imdecode |-> 0, load |-> 0, cvt |-> 0,
            faceArgs |-> <<>>, faceRet |-> <<>>,
            eyeArgs |-> <<>>, eyeRet |-> <<>>]

NotRemembered == [set |-> FALSE, payload |-> "", out |-> <<>>, gap |-> FALSE]

Envs == [faceLoad : {"ok", "empty", "raise"}, eyeLoad : {"ok", "empty", "raise"},
         emptyBufRaises : BOOLEAN]

Init ==
    /\ env \in Envs
    /\ nreq = 0
    /\ argv = <<"behavior-analysis.py">>
    /\ pc = "exit"
    /\ image_data = ""
    /\ image_bytes = ""
    /\ frame = "None"
    /\ face_cascade = NoCascade
    /\ eye_cascade = NoCascade
    /\ gray = NoGrid
    /\ faces = <<>>
    /\ face = NoBox
    /\ eyes = <<>>
    /\ behavior = ""
    /\ exc = NoExc
    /\ stdout = <<>>
    /\ calls = NoCalls
    /\ raisedAt = ""
    /\ remembered = NotRemembered

(* A new process runs the script: python behavior-analysis.py [arg ...].   *)
(* Nothing of an earlier process survives; the observer may keep the input *)
(* and output of the invocation that just ended.                           *)
Invoke ==
    /\ pc \in {"exit", "crashed"}
    /\ nreq < MaxRequests
    /\ \E a \in Argvs : argv' = a
    /\ nreq' = nreq + 1
    /\ pc' = "main"
    /\ image_data' = ""
    /\ image_bytes' = ""
    /\ frame' = "None"
    /\ face_cascade' = NoCascade
    /\ eye_cascade' = NoCascade
    /\ gray' = NoGrid
    /\ faces' = <<>>
    /\ face' = NoBox
    /\ eyes' = <<>>
    /\ behavior' = ""
    /\ exc' = NoExc
    /\ stdout' = <<>>
    /\ calls' = NoCalls
    /\ raisedAt' = ""
    /\ \E keep \in BOOLEAN :
          remembered' =
              IF nreq > 0 /\ ~remembered.set /\ keep
              THEN [set |-> TRUE,
                    payload |-> (IF Len(argv) > 1 THEN argv[2] ELSE ""),
                    out |-> stdout, gap |-> FALSE]
              ELSE IF remembered.set
                      /\ (IF Len(argv) > 1 THEN argv[2] ELSE "") # remembered.payload
                   THEN [remembered EXCEPT !.gap = TRUE]
                   ELSE remembered
    /\ UNCHANGED env

MissingArgument == << <<"status", "error">>, <<"message", "No image data provided">> >>

(* main, lines 79-83: read sys.argv[1]; without it print the error and return. *)
main_NoReturn ==
    /\ pc = "main"
    /\ image_data' = IF Len(argv) > 1 THEN argv[2] ELSE ""
    /\ stdout' = IF image_data' = "" THEN Append(stdout, Line(MissingArgument))
                 ELSE stdout
    /\ pc' = "b64decode"
    /\ UNCHANGED <<env, nreq, argv, image_bytes, frame, face_cascade, eye_cascade,
                   gray, faces, face, eyes, behavior, exc, calls, raisedAt,
                   remembered>>

main_args ==
    /\ pc = "main"
    /\ image_data' = IF Len(argv) > 1 THEN argv[2] ELSE ""
    /\ IF image_data' = ""
       THEN /\ stdout' = Append(stdout, Line(MissingArgument))
            /\ pc' = "exit"
       ELSE /\ pc' = "b64decode"
            /\ UNCHANGED stdout
    /\ UNCHANGED <<env, nreq, argv, image_bytes, frame, face_cascade, eye_cascade,
                   gray, faces, face, eyes, behavior, exc, calls, raisedAt,
                   remembered>>

(* analyze_behavior, line 40: image_bytes = base64.b64decode(image_data). *)
analyze_b64decode ==
    /\ pc = "b64decode"
    /\ calls' = [calls EXCEPT !.b64 = @ + 1]
    /\ LET r == B64Decode(image_data)
       IN  IF r.exc # NoExc
           THEN /\ exc' = r.exc
                /\ raisedAt' = "b64decode"
                /\ pc' = "except"
                /\ UNCHANGED image_bytes
           ELSE /\ image_bytes' = r.bytes
                /\ pc' = "imdecode"
                /\ UNCHANGED <<exc, raisedAt>>
    /\ UNCHANGED <<env, nreq, argv, image_data, frame, face_cascade, eye_cascade,
                   gray, faces, face, eyes, behavior, stdout, remembered>>

(* analyze_behavior, lines 41-42: frame = cv2.imdecode(np.frombuffer(...)). *)
analyze_imdecode ==
    /\ pc = "imdecode"
    /\ calls' = [calls EXCEPT !.imdecode = @ + 1]
    /\ LET r == ImDecode(image_bytes, env.emptyBufRaises)
       IN  IF r.exc # NoExc
           THEN /\ exc' = r.exc
                /\ raisedAt' = "imdecode"
                /\ pc' = "except"
                /\ UNCHANGED frame
           ELSE /\ frame' = r.frame
                /\ pc' = "load"
                /\ UNCHANGED <<exc, raisedAt>>
    /\ UNCHANGED <<env, nreq, argv, image_data, image_bytes, face_cascade,
                   eye_cascade, gray, faces, face, eyes, behavior, stdout,
                   remembered>>

(* analyze_behavior, lines 45-46: load the face cascade, then the eye cascade. *)
analyze_load ==
    /\ pc = "load"
    /\ LET f == CascadeClassifier("face", env.faceLoad)
           e == CascadeClassifier("eye", env.eyeLoad)
       IN  IF f.exc # NoExc
           THEN /\ calls' = [calls EXCEPT !.load = @ + 1]
                /\ exc' = f.exc
                /\ raisedAt' = "load"
                /\ pc' = "except"
                /\ UNCHANGED <<face_cascade, eye_cascade>>
           ELSE IF e.exc # NoExc
           THEN /\ calls' = [calls EXCEPT !.load = @ + 2]
                /\ face_cascade' = f.cascade
                /\ exc' = e.exc
                /\ raisedAt' = "load"
                /\ pc' = "except"
                /\ UNCHANGED eye_cascade
           ELSE /\ calls' = [calls EXCEPT !.load = @ + 2]
                /\ face_cascade' = f.cascade
                /\ eye_cascade' = e.cascade
                /\ pc' = "detect_face"
                /\ UNCHANGED <<exc, raisedAt>>
    /\ UNCHANGED <<env, nreq, argv, image_data, image_bytes, frame, gray, faces,
                   face, eyes, behavior, stdout, remembered>>

(* detect_face mutated: a frame that did not decode is treated as a frame  *)
(* with no face in it.                                                     *)
detect_face_NoneGuard ==
    /\ pc = "detect_face"
    /\ LET c == CvtColor(frame)
       IN  IF c.exc # NoExc
           THEN /\ calls' = calls
                /\ faces' = <<>>
                /\ pc' = "check_faces"
                /\ UNCHANGED <<gray, exc, raisedAt>>
           ELSE IF face_cascade.empty
           THEN /\ calls' = [calls EXCEPT !.cvt = @ + 1,
                                          !.faceArgs = Append(@, c.gray)]
                /\ gray' = c.gray
                /\ exc' = DetectorEmptyExc
                /\ raisedAt' = "detect_face"
                /\ pc' = "except"
                /\ UNCHANGED faces
           ELSE LET found == DetectMultiScale(face_cascade, c.gray, FaceMinSize)
                IN  /\ calls' = [calls EXCEPT !.cvt = @ + 1,
                                              !.faceArgs = Append(@, c.gray),
                                              !.faceRet = Append(@, found)]
                    /\ gray' = c.gray
                    /\ faces' = found
                    /\ pc' = "check_faces"
                    /\ UNCHANGED <<exc, raisedAt>>
    /\ UNCHANGED <<env, nreq, argv, image_data, image_bytes, frame, face_cascade,
                   eye_cascade, face, eyes, behavior, stdout, remembered>>

(* analyze_behavior, line 49, and detect_face, lines 12-21: grayscale      *)
(* conversion of the frame, then the face cascade on the whole grid.       *)
detect_face ==
    /\ pc = "detect_face"
    /\ LET c == CvtColor(frame)
       IN  IF c.exc # NoExc
           THEN /\ calls' = [calls EXCEPT !.cvt = @ + 1]
                /\ exc' = c.exc
                /\ raisedAt' = "cvtColor"
                /\ pc' = "except"
                /\ UNCHANGED <<gray, faces>>
           ELSE IF face_cascade.empty
           THEN /\ calls' = [calls EXCEPT !.cvt = @ + 1,
                                          !.faceArgs = Append(@, c.gray)]
                /\ gray' = c.gray
                /\ exc' = DetectorEmptyExc
                /\ raisedAt' = "detect_face"
                /\ pc' = "except"
                /\ UNCHANGED faces
           ELSE LET found == DetectMultiScale(face_cascade, c.gray, FaceMinSize)
                IN  /\ calls' = [calls EXCEPT !.cvt = @ + 1,
                                              !.faceArgs = Append(@, c.gray),
                                              !.faceRet = Append(@, found)]
                    /\ gray' = c.gray
                    /\ faces' = found
                    /\ pc' = "check_faces"
                    /\ UNCHANGED <<exc, raisedAt>>
    /\ UNCHANGED <<env, nreq, argv, image_data, image_bytes, frame, face_cascade,
                   eye_cascade, face, eyes, behavior, stdout, remembered>>

(* check_faces mutated: no face is reported as "sleeping". *)
check_faces_Sleeping ==
    /\ pc = "check_faces"
    /\ IF Len(faces) = 0
       THEN /\ behavior' = "sleeping"
            /\ pc' = "print"
            /\ UNCHANGED face
       ELSE /\ face' = faces[1]
            /\ pc' = "detect_eyes"
            /\ UNCHANGED behavior
    /\ UNCHANGED <<env, nreq, argv, image_data, image_bytes, frame, face_cascade,
                   eye_cascade, gray, faces, eyes, exc, stdout, calls, raisedAt,
                   remembered>>

(* analyze_behavior, lines 51-56: no face returns "idle"; otherwise the    *)
(* first face is the one analysed.                                         *)
check_faces ==
    /\ pc = "check_faces"
    /\ IF Len(faces) = 0
       THEN /\ behavior' = "idle"
            /\ pc' = "print"
            /\ UNCHANGED face
       ELSE /\ face' = faces[1]
            /\ pc' = "detect_eyes"
            /\ UNCHANGED behavior
    /\ UNCHANGED <<env, nreq, argv, image_data, image_bytes, frame, face_cascade,
                   eye_cascade, gray, faces, eyes, exc, stdout, calls, raisedAt,
                   remembered>>

(* detect_eyes, lines 26-32, on the grid roi: the eye cascade raises when  *)
(* it is empty and otherwise returns boxes, one of results.                *)
RunEyeCascade(roi, results) ==
    /\ IF eye_cascade.empty
       THEN /\ calls' = [calls EXCEPT !.eyeArgs = Append(@, roi)]
            /\ exc' = DetectorEmptyExc
            /\ raisedAt' = "detect_eyes"
            /\ pc' = "except"
            /\ UNCHANGED eyes
       ELSE \E found \in results :
                /\ calls' = [calls EXCEPT !.eyeArgs = Append(@, roi),
                                          !.eyeRet = Append(@, found)]
                /\ eyes' = found
                /\ pc' = "classify"
                /\ UNCHANGED <<exc, raisedAt>>
    /\ UNCHANGED <<env, nreq, argv, image_data, image_bytes, frame, face_cascade,
                   eye_cascade, gray, faces, face, behavior, stdout, remembered>>

(* detect_eyes mutated: the slice takes rows from x and columns from y. *)
detect_eyes_Swapped ==
    /\ pc = "detect_eyes"
    /\ LET roi_gray == Crop(gray, face[1], face[1] + face[3], face[2], face[2] + face[4])
       IN  RunEyeCascade(roi_gray, {DetectMultiScale(eye_cascade, roi_gray, EyeMinSize)})

(* detect_eyes mutated: the detector may lose its last box from one run to *)
(* the next.                                                               *)
detect_eyes_Flaky ==
    /\ pc = "detect_eyes"
    /\ LET roi_gray == Crop(gray, face[2], face[2] + face[4], face[1], face[1] + face[3])
           found == DetectMultiScale(eye_cascade, roi_gray, EyeMinSize)
       IN  RunEyeCascade(roi_gray,
                         IF Len(found) > 0
                         THEN {found, SubSeq(found, 1, Len(found) - 1)}
                         ELSE {found})

(* analyze_behavior, line 59, and detect_eyes, lines 23-32: the eye        *)
(* cascade on roi_gray = gray[y:y+h, x:x+w] of the first face.             *)
detect_eyes ==
    /\ pc = "detect_eyes"
    /\ LET roi_gray == Crop(gray, face[2], face[2] + face[4], face[1], face[1] + face[3])
       IN  RunEyeCascade(roi_gray, {DetectMultiScale(eye_cascade, roi_gray, EyeMinSize)})

LabelLT1(e) == IF Len(e) < 1 THEN "sleeping" ELSE "working"

LabelLE2(e) == IF Len(e) <= 2 THEN "sleeping" ELSE "working"

LabelMoving(e) == IF Len(e) < 2 THEN "sleeping" ELSE IF Len(e) > 2 THEN "moving" ELSE "working"

(* analyze_behavior, lines 61-68: fewer than two eyes is "sleeping",       *)
(* anything else "working".                                                *)
Label(e) == IF Len(e) < 2 THEN "sleeping" ELSE "working"

analyze_classify ==
    /\ pc = "classify"
    /\ behavior' = Label(eyes)
    /\ pc' = "print"
    /\ UNCHANGED <<env, nreq, argv, image_data, image_bytes, frame, face_cascade,
                   eye_cascade, gray, faces, face, eyes, exc, stdout, calls,
                   raisedAt, remembered>>

(* main, lines 86-87: print the label analyze_behavior returned. *)
main_print ==
    /\ pc = "print"
    /\ stdout' = Append(stdout, Line(<< <<"status", behavior>> >>))
    /\ pc' = "exit"
    /\ UNCHANGED <<env, nreq, argv, image_data, image_bytes, frame, face_cascade,
                   eye_cascade, gray, faces, face, eyes, behavior, exc, calls,
                   raisedAt, remembered>>

(* main_except mutated: the handler swallows the exception. *)
main_except_Silent ==
    /\ pc = "except"
    /\ pc' = IF Caught(exc.cls) THEN "exit" ELSE "crashed"
    /\ UNCHANGED <<env, nreq, argv, image_data, image_bytes, frame, face_cascade,
                   eye_cascade, gray, faces, face, eyes, behavior, exc, stdout,
                   calls, raisedAt, remembered>>

(* main, lines 88-89: except Exception as e: print the error with str(e).  *)
(* An exception the clause does not catch ends the process with a          *)
(* traceback.                                                              *)
main_except ==
    /\ pc = "except"
    /\ IF Caught(exc.cls)
       THEN /\ stdout' = Append(stdout,
                            Line(<< <<"status", "error">>, <<"message", exc.msg>> >>))
            /\ pc' = "exit"
       ELSE /\ pc' = "crashed"
            /\ UNCHANGED stdout
    /\ UNCHANGED <<env, nreq, argv, image_data, image_bytes, frame, face_cascade,
                   eye_cascade, gray, faces, face, eyes, behavior, exc, calls,
                   raisedAt, remembered>>

(* The steps of one invocation: the script runs synchronously to its end. *)
Run ==
    \/ main_args
    \/ analyze_b64decode
    \/ analyze_imdecode
    \/ analyze_load
    \/ detect_face
    \/ check_faces
    \/ detect_eyes
    \/ analyze_classify
    \/ main_print
    \/ main_except

Next ==
    \/ Invoke
    \/ main_args
    \/ analyze_b64decode
    \/ analyze_imdecode
    \/ analyze_load
    \/ detect_face
    \/ check_faces
    \/ detect_eyes
    \/ analyze_classify
    \/ main_print
    \/ main_except

Spec == Init /\ [][Next]_vars

(* A started process is scheduled until it ends. *)
FairSpec == Spec /\ WF_vars(Run)

---------------------------------------------------------------------------
(* Properties.                                                             *)

(* sys.argv[1], or "" without it: the payload of the current invocation. *)
Payload == IF Len(argv) > 1 THEN argv[2] ELSE ""

HasKey(line, k) == \E i \in DOMAIN line.obj : line.obj[i][1] = k

Get(line, k) == line.obj[CHOOSE i \in DOMAIN line.obj : line.obj[i][1] = k][2]

(* What the image holds, read off the image itself: the face patterns of   *)
(* at least 30x30, and the eye patterns of at least 20x20 lying wholly     *)
(* inside the first of them.                                               *)
DetectableFaces(img) ==
    LET Big(b) == b[3] >= 30 /\ b[4] >= 30
    IN  SelectSeq(Images[img].faces, Big)

PrimaryEyeCount(img) ==
    LET f == DetectableFaces(img)[1]
        In(e) == /\ e[3] >= 20 /\ e[4] >= 20
                 /\ f[1] <= e[1] /\ e[1] + e[3] <= f[1] + f[3]
                 /\ f[2] <= e[2] /\ e[2] + e[4] <= f[2] + f[4]
    IN  Len(SelectSeq(Images[img].eyes, In))

Returned == pc \in {"print", "exit"}

(* C1: when the payload decodes and the Face Detector returns zero boxes,  *)
(* analyze_behavior returns "idle" and main prints {"status": "idle"}.     *)
C1_NoFaceIdle ==
    (/\ Returned
     /\ frame # "None"
     /\ Len(calls.faceRet) = 1
     /\ DetectableFaces(frame) = <<>>)
    => /\ calls.faceRet[1] = <<>>
       /\ behavior = "idle"
       /\ pc = "exit" => /\ Len(stdout) = 1
                         /\ stdout[1].text = "{\"status\": \"idle\"}"

C1_Witness ==
    /\ pc = "exit"
    /\ frame = "room"
    /\ env.eyeLoad = "empty"
    /\ Len(stdout) = 1
    /\ stdout[1].text = "{\"status\": \"idle\"}"

(* C2: when the Face Detector returns at least one box and the Eye         *)
(* Detector returns, for the crop of the first face box, fewer than 2      *)
(* boxes, the label is "sleeping", whatever the other faces hold.          *)
C2_FewEyesSleeping ==
    (/\ Returned
     /\ frame # "None"
     /\ Len(DetectableFaces(frame)) >= 1
     /\ Len(calls.eyeRet) = 1
     /\ PrimaryEyeCount(frame) < 2)
    => /\ Len(calls.eyeRet[1]) < 2
       /\ behavior = "sleeping"
       /\ pc = "exit" => /\ Len(stdout) = 1
                         /\ stdout[1].text = "{\"status\": \"sleeping\"}"

C2_Witness ==
    /\ pc = "exit"
    /\ frame = "two_first_asleep"
    /\ Len(faces) = 2
    /\ Len(stdout) = 1
    /\ Get(stdout[1], "status") = "sleeping"

(* C3: when the Face Detector returns at least one box and the Eye         *)
(* Detector returns, for the crop of the first face box, 2 or more boxes,  *)
(* the label is "working".                                                 *)
C3_TwoEyesWorking ==
    (/\ Returned
     /\ frame # "None"
     /\ Len(DetectableFaces(frame)) >= 1
     /\ Len(calls.eyeRet) = 1
     /\ PrimaryEyeCount(frame) >= 2)
    => /\ Len(calls.eyeRet[1]) >= 2
       /\ behavior = "working"
       /\ pc = "exit" => /\ Len(stdout) = 1
                         /\ stdout[1].text = "{\"status\": \"working\"}"

C3_Witness ==
    /\ pc = "exit"
    /\ frame = "two_first_awake"
    /\ Len(eyes) = 2
    /\ Len(stdout) = 1
    /\ Get(stdout[1], "status") = "working"

(* C4: "moving" is never produced: neither returned by analyze_behavior    *)
(* nor printed, on any input, failing inputs included.                     *)
C4_NeverMoving ==
    /\ behavior # "moving"
    /\ \A i \in DOMAIN stdout :
          /\ Get(stdout[i], "status") # "moving"
          /\ stdout[i].text # "{\"status\": \"moving\"}"

C4_Witness ==
    /\ pc = "exit"
    /\ frame = "three_eyes"
    /\ Len(eyes) = 3
    /\ Len(stdout) = 1
    /\ Get(stdout[1], "status") = "working"

(* C5: without an image argument, or with an empty one, main prints        *)
(* exactly {"status": "error", "message": "No image data provided"} and    *)
(* ends without calling the decoder, the cascade loader or a detector.     *)
C5_MissingArgument ==
    (nreq > 0 /\ Payload = "")
    => /\ calls = NoCalls
       /\ pc \in {"main", "exit"}
       /\ pc = "main" => stdout = <<>>
       /\ pc = "exit" =>
             /\ Len(stdout) = 1
             /\ stdout[1].text =
                   "{\"status\": \"error\", \"message\": \"No image data provided\"}"

C5_Witness ==
    /\ pc = "exit"
    /\ argv = <<"behavior-analysis.py", "">>
    /\ Len(stdout) = 1
    /\ Get(stdout[1], "status") = "error"

(* C6: a failure raised at any stage is caught by main and printed as      *)
(* {"status": "error", "message": str(e)}; none escapes main, and a        *)
(* request that raised prints nothing else.                                *)
C6_FailuresReported ==
    /\ pc # "crashed"
    /\ raisedAt # "" =>
          /\ pc \in {"except", "exit"}
          /\ exc # NoExc
          /\ pc = "except" => stdout = <<>>
          /\ pc = "exit" =>
                /\ Len(stdout) = 1
                /\ stdout[1].obj = << <<"status", "error">>, <<"message", exc.msg>> >>
                /\ stdout[1].text =
                      "{\"status\": \"error\", \"message\": \"" \o exc.msg \o "\"}"

C6_Witness ==
    /\ pc = "exit"
    /\ raisedAt = "detect_eyes"
    /\ Len(stdout) = 1
    /\ Get(stdout[1], "message") = DetectorEmptyExc.msg

C7_OneLine ==
    /\ pc # "crashed"
    /\ Len(stdout) <= 1
    /\ pc # "exit" => stdout = <<>>
    /\ (pc = "exit" /\ nreq > 0) =>
          /\ Len(stdout) = 1
          /\ Get(stdout[1], "status") \in {"working", "idle", "sleeping", "error"}

(* C7: every invocation of main ends, and has then printed exactly one     *)
(* line, whose status is working, idle, sleeping or error.                 *)
C7_TerminatesWithOneLine ==
    /\ []C7_OneLine
    /\ (pc # "exit") ~> (pc = "exit")

C7_Witness ==
    /\ pc = "exit"
    /\ nreq = 2
    /\ raisedAt = "load"
    /\ Len(stdout) = 1

(* The payload does not decode to an image: b64decode raises, or imdecode  *)
(* raises or yields None.                                                  *)
Undecodable(p) ==
    \/ B64Decode(p).exc # NoExc
    \/ LET d == ImDecode(B64Decode(p).bytes, env.emptyBufRaises)
       IN  d.exc # NoExc \/ d.frame = "None"

(* C8: a non-empty payload that does not decode to an image is never       *)
(* classified: the line printed has status "error" and a non-empty message. *)
C8_UndecodableIsError ==
    (nreq > 0 /\ Payload # "" /\ Undecodable(Payload))
    => /\ behavior = ""
       /\ pc = "exit" =>
             /\ Len(stdout) = 1
             /\ Get(stdout[1], "status") = "error"
             /\ HasKey(stdout[1], "message")
             /\ Get(stdout[1], "message") # ""

C8_Witness ==
    /\ pc = "exit"
    /\ Payload = "aGVsbG8="
    /\ raisedAt = "cvtColor"
    /\ Len(stdout) = 1

(* C9: an invocation prints what an earlier invocation with the same       *)
(* payload printed, whatever ran in between.                               *)
C9_SamePayloadSameOutput ==
    (pc = "exit" /\ remembered.set /\ Payload = remembered.payload)
    => stdout = remembered.out

C9_Witness ==
    /\ pc = "exit"
    /\ remembered.set
    /\ remembered.gap
    /\ Payload = remembered.payload
    /\ frame = "wink"
    /\ Len(stdout) = 1
    /\ stdout = remembered.out

(* C10: the Eye Detector is called at most once per request, only after    *)
(* the Face Detector returned a box, and on the grid rows y..y+h, columns  *)
(* x..x+w of the first box returned: not the whole grid, not a later box.  *)
C10_EyesOnlyInFirstFace ==
    /\ Len(calls.eyeArgs) <= 1
    /\ Len(calls.eyeArgs) = 1 =>
          /\ Len(calls.faceRet) = 1
          /\ Len(calls.faceRet[1]) >= 1
          /\ LET g == calls.eyeArgs[1]
                 b == calls.faceRet[1][1]
                 Region(box) == [img |-> calls.faceArgs[1].img,
                                 r0 |-> box[2], r1 |-> box[2] + box[4],
                                 c0 |-> box[1], c1 |-> box[1] + box[3]]
             IN  /\ g = Region(b)
                 /\ g # calls.faceArgs[1]
                 /\ \A k \in 2..Len(calls.faceRet[1]) : g # Region(calls.faceRet[1][k])

C10_Witness ==
    /\ pc = "classify"
    /\ frame = "small"
    /\ Len(calls.eyeArgs) = 1
    /\ calls.eyeArgs[1] = [img |-> "small", r0 |-> 10, r1 |-> 90, c0 |-> 20, c1 |-> 80]
    /\ Len(eyes) = 1
====
